---------------------------- MODULE Spec2Model ----------------------------
(***************************************************************************)
(* The retrieval-augmented-context engine of Profesor (utils/rag.js):      *)
(* the chunker, the embedding client, the in-memory vector store, the      *)
(* retrieval engine and the document session.                              *)
(*                                                                         *)
(* Strings are sequences of characters.  The characters "A" and "B" each   *)
(* stand for a run of BlockLen non-whitespace letters (a long word of      *)
(* document A, resp. B): the code never cuts a string inside a word, so    *)
(* every string operation of the code acts on whole characters of this     *)
(* representation, and String.length is the weighted length StrLen.        *)
(***************************************************************************)
EXTENDS Integers, Sequences, FiniteSets, TLC

\* ------------------------------------------------------------------ bounds
MaxLoads == 2
MaxQueries == 2
MaxK == 2
MaxRetries == 3
MaxTextLen == 4
MaxChunks == 3
BlockLen == 800

\* ------------------------------------------------------- program constants
DefaultChunkSize == 1500
OverlapWords == 20
MinChunks == 3
SentenceMinLen == 1000
DefaultRetries == 2
QueryRetries == 0
BackoffUnit == 2000
RateLimited == 429

\* ----------------------------------------------------------------- strings
Blocks == {"A", "B"}
Whitespace == {" ", "\n"}
SentenceEnd == {".", "!", "?"}

CharLen(c) == IF c \in Blocks THEN BlockLen ELSE 1

RECURSIVE StrLen(_)
StrLen(s) == IF s = <<>> THEN 0 ELSE CharLen(Head(s)) + StrLen(Tail(s))

Min(a, b) == IF a < b THEN a ELSE b
Max(a, b) == IF a > b THEN a ELSE b

\* Array.prototype.slice(0, k) for k >= 0
SliceFirst(xs, k) == SubSeq(xs, 1, Min(k, Len(xs)))

\* Array.prototype.slice(-k)
SliceLast(xs, k) == SubSeq(xs, Max(1, Len(xs) - k + 1), Len(xs))

RECURSIVE TrimStart(_)
TrimStart(s) ==
    IF s # <<>> /\ Head(s) \in Whitespace THEN TrimStart(Tail(s)) ELSE s

RECURSIVE TrimEnd(_)
TrimEnd(s) ==
    IF s # <<>> /\ s[Len(s)] \in Whitespace
    THEN TrimEnd(SubSeq(s, 1, Len(s) - 1)) ELSE s

\* String.prototype.trim
Trim(s) == TrimEnd(TrimStart(s))

\* Array.prototype.join
RECURSIVE Join(_, _)
Join(parts, sep) ==
    IF parts = <<>> THEN <<>>
    ELSE IF Len(parts) = 1 THEN parts[1]
    ELSE parts[1] \o sep \o Join(Tail(parts), sep)

\* index of the first character at or after i that is not in set cs
RECURSIVE SkipRun(_, _, _)
SkipRun(s, i, cs) ==
    IF i <= Len(s) /\ s[i] \in cs THEN SkipRun(s, i + 1, cs) ELSE i

\* text.split(/\n\n+/): the separators are the maximal runs of two or more "\n"
RECURSIVE SplitParagraphsFrom(_, _, _)
SplitParagraphsFrom(s, i, cur) ==
    IF i > Len(s) THEN <<cur>>
    ELSE IF s[i] = "\n" /\ i < Len(s) /\ s[i + 1] = "\n"
         THEN <<cur>> \o SplitParagraphsFrom(s, SkipRun(s, i, {"\n"}), <<>>)
         ELSE SplitParagraphsFrom(s, i + 1, Append(cur, s[i]))

SplitParagraphs(s) == SplitParagraphsFrom(s, 1, <<>>)

\* currentChunk.split(' '): every single space separates
RECURSIVE SplitSpacesFrom(_, _, _)
SplitSpacesFrom(s, i, cur) ==
    IF i > Len(s) THEN <<cur>>
    ELSE IF s[i] = " "
         THEN <<cur>> \o SplitSpacesFrom(s, i + 1, <<>>)
         ELSE SplitSpacesFrom(s, i + 1, Append(cur, s[i]))

SplitSpaces(s) == SplitSpacesFrom(s, 1, <<>>)

\* text.split(/(?<=[.!?])\s+/): the separators are the maximal whitespace
\* runs that directly follow a sentence-ending character
RECURSIVE SplitSentencesFrom(_, _, _)
SplitSentencesFrom(s, i, cur) ==
    IF i > Len(s) THEN <<cur>>
    ELSE IF s[i] \in Whitespace /\ i > 1 /\ s[i - 1] \in SentenceEnd
         THEN <<cur>> \o SplitSentencesFrom(s, SkipRun(s, i, Whitespace), <<>>)
         ELSE SplitSentencesFrom(s, i + 1, Append(cur, s[i]))

SplitSentences(s) == SplitSentencesFrom(s, 1, <<>>)

\* ----------------------------------------------------------------- chunker
\* the loop state of chunkText / splitBySentences
ChunkerState(chunks, currentChunk) ==
    [chunks |-> chunks, currentChunk |-> currentChunk]

\* chunks.push({ text: currentChunk.trim(), index: chunkIndex++ })
PushChunk(chunks, currentChunk) ==
    Append(chunks, [text |-> Trim(currentChunk), index |-> Len(chunks)])

\* the paragraph loop without the overlap seed: after a flush the next buffer
\* starts with the paragraph alone
ParagraphStepNoSeed(st, para, chunkSize) ==
    IF StrLen(st.currentChunk) + StrLen(para) > chunkSize
       /\ StrLen(st.currentChunk) > 0
    THEN ChunkerState(PushChunk(st.chunks, st.currentChunk), para)
    ELSE ChunkerState(
             st.chunks,
             st.currentChunk
                 \o (IF st.currentChunk # <<>> THEN <<"\n", "\n">> ELSE <<>>)
                 \o para)

\* the paragraph loop with a forced cut: a paragraph longer than the target
\* size that meets an empty buffer is cut after its first character
ParagraphStepCutting(st, para, chunkSize) ==
    IF StrLen(st.currentChunk) + StrLen(para) > chunkSize
       /\ StrLen(st.currentChunk) > 0
    THEN ChunkerState(
             PushChunk(st.chunks, st.currentChunk),
             Join(SliceLast(SplitSpaces(st.currentChunk), OverlapWords), <<" ">>)
                 \o <<" ">> \o para)
    ELSE IF st.currentChunk = <<>> /\ StrLen(para) > chunkSize
    THEN ChunkerState(PushChunk(st.chunks, <<Head(para)>>), Tail(para))
    ELSE ChunkerState(
             st.chunks,
             st.currentChunk
                 \o (IF st.currentChunk # <<>> THEN <<"\n", "\n">> ELSE <<>>)
                 \o para)

\* one iteration of the paragraph loop of chunkText
ParagraphStep(st, para, chunkSize) ==
    IF StrLen(st.currentChunk) + StrLen(para) > chunkSize
       /\ StrLen(st.currentChunk) > 0
    THEN ChunkerState(
             PushChunk(st.chunks, st.currentChunk),
             Join(SliceLast(SplitSpaces(st.currentChunk), OverlapWords), <<" ">>)
                 \o <<" ">> \o para)
    ELSE ChunkerState(
             st.chunks,
             st.currentChunk
                 \o (IF st.currentChunk # <<>> THEN <<"\n", "\n">> ELSE <<>>)
                 \o para)

RECURSIVE ParagraphLoop(_, _, _)
ParagraphLoop(st, paras, chunkSize) ==
    IF paras = <<>> THEN st
    ELSE ParagraphLoop(ParagraphStep(st, Head(paras), chunkSize),
                       Tail(paras), chunkSize)

\* if (currentChunk.trim()) chunks.push(...)
FinalFlush(st) ==
    IF Trim(st.currentChunk) # <<>>
    THEN PushChunk(st.chunks, st.currentChunk)
    ELSE st.chunks

\* the sentence loop with a flush that starts the next buffer empty: the
\* sentence that triggered the flush is lost
SentenceStepDropping(st, sentence, chunkSize) ==
    IF StrLen(st.currentChunk) + StrLen(sentence) > chunkSize
       /\ StrLen(st.currentChunk) > 0
    THEN ChunkerState(PushChunk(st.chunks, st.currentChunk), <<>>)
    ELSE ChunkerState(
             st.chunks,
             st.currentChunk
                 \o (IF st.currentChunk # <<>> THEN <<" ">> ELSE <<>>)
                 \o sentence)

\* one iteration of the sentence loop of splitBySentences
SentenceStep(st, sentence, chunkSize) ==
    IF StrLen(st.currentChunk) + StrLen(sentence) > chunkSize
       /\ StrLen(st.currentChunk) > 0
    THEN ChunkerState(PushChunk(st.chunks, st.currentChunk), sentence)
    ELSE ChunkerState(
             st.chunks,
             st.currentChunk
                 \o (IF st.currentChunk # <<>> THEN <<" ">> ELSE <<>>)
                 \o sentence)

RECURSIVE SentenceLoop(_, _, _)
SentenceLoop(st, sentences, chunkSize) ==
    IF sentences = <<>> THEN st
    ELSE SentenceLoop(SentenceStep(st, Head(sentences), chunkSize),
                      Tail(sentences), chunkSize)

splitBySentences(text, chunkSize) ==
    FinalFlush(SentenceLoop(ChunkerState(<<>>, <<>>),
                            SplitSentences(text), chunkSize))

\* the paragraph pass of chunkText (lines 74-91)
ParagraphChunks(text, chunkSize) ==
    FinalFlush(ParagraphLoop(ChunkerState(<<>>, <<>>),
                             SplitParagraphs(text), chunkSize))

\* chunkText without the test of line 94: the paragraph result is returned
\* whatever its length
chunkTextNoFallback(text, chunkSize) == ParagraphChunks(text, chunkSize)

chunkText(text, chunkSize) ==
    LET chunks == ParagraphChunks(text, chunkSize)
    IN  IF Len(chunks) < MinChunks /\ StrLen(text) > SentenceMinLen
        THEN splitBySentences(text, chunkSize)
        ELSE chunks


\* ------------------------------------------------------------- embeddings
\* the value of `embedding` / `queryEmbedding`: null, or an array of numbers
Null == [isNull |-> TRUE, values |-> <<>>]
Vec(v) == [isNull |-> FALSE, values |-> v]

\* the vectors the provider may put in data.embedding.values
ProviderVectors == {<<1, 0>>, <<0, 1>>}

RECURSIVE Dot(_, _)
Dot(a, b) == IF a = <<>> THEN 0 ELSE Head(a) * Head(b) + Dot(Tail(a), Tail(b))

\* a score is the real number num / (sqrt(normA) * sqrt(normB))
ZeroScore == [num |-> 0, normA |-> 1, normB |-> 1]

\* cosineSimilarity without the test of line 66: the quotient is formed
\* whatever the norms
cosineSimilarityUnguarded(a, b) ==
    IF a.isNull \/ b.isNull \/ Len(a.values) # Len(b.values) THEN ZeroScore
    ELSE [num |-> Dot(a.values, b.values),
          normA |-> Dot(a.values, a.values),
          normB |-> Dot(b.values, b.values)]

cosineSimilarity(a, b) ==
    IF a.isNull \/ b.isNull \/ Len(a.values) # Len(b.values) THEN ZeroScore
    ELSE LET dotProduct == Dot(a.values, b.values)
             normA == Dot(a.values, a.values)
             normB == Dot(b.values, b.values)
         IN  IF normA = 0 \/ normB = 0 THEN ZeroScore
             ELSE [num |-> dotProduct, normA |-> normA, normB |-> normB]

Sign(x) == IF x > 0 THEN 1 ELSE IF x < 0 THEN 0 - 1 ELSE 0

\* s > t as real numbers
ScoreGreater(s, t) ==
    Sign(s.num) * s.num * s.num * (t.normA * t.normB)
        > Sign(t.num) * t.num * t.num * (s.normA * s.normB)

\* ------------------------------------------------------------ vector store
\* addChunk: this.chunks.push({ id: this.chunks.length, text, embedding, metadata })
addChunk(chunks, text, embedding, metadata) ==
    Append(chunks, [id |-> Len(chunks), text |-> text,
                    embedding |-> embedding, metadata |-> metadata])

\* the elements of `scored`: { ...chunk, score }
Scored(chunk, queryEmbedding) ==
    [id |-> chunk.id, text |-> chunk.text, embedding |-> chunk.embedding,
     metadata |-> chunk.metadata,
     score |-> IF Len(chunk.embedding) > 0
               THEN cosineSimilarity(queryEmbedding, Vec(chunk.embedding))
               ELSE ZeroScore]

\* InsertByScore of a sort that is not stable: an element goes before the
\* elements of equal score inserted earlier
RECURSIVE InsertByScoreUnstable(_, _)
InsertByScoreUnstable(sorted, x) ==
    IF sorted = <<>> THEN <<x>>
    ELSE IF ~ScoreGreater(Head(sorted).score, x.score)
         THEN <<x>> \o sorted
         ELSE <<Head(sorted)>> \o InsertByScoreUnstable(Tail(sorted), x)

\* scored.sort((a, b) => b.score - a.score): a stable sort, descending
RECURSIVE InsertByScore(_, _)
InsertByScore(sorted, x) ==
    IF sorted = <<>> THEN <<x>>
    ELSE IF ScoreGreater(x.score, Head(sorted).score)
         THEN <<x>> \o sorted
         ELSE <<Head(sorted)>> \o InsertByScore(Tail(sorted), x)

RECURSIVE SortByScore(_)
SortByScore(xs) ==
    IF xs = <<>> THEN <<>>
    ELSE InsertByScore(SortByScore(SubSeq(xs, 1, Len(xs) - 1)), xs[Len(xs)])

\* findSimilar whose fallback takes the last topK chunks, not the first
findSimilarTail(chunks, queryEmbedding, topK) ==
    IF Len(chunks) = 0 THEN <<>>
    ELSE IF queryEmbedding.isNull \/ Len(queryEmbedding.values) = 0
         THEN SliceLast(chunks, topK)
         ELSE SliceFirst(
                  SortByScore([i \in 1..Len(chunks) |->
                                  Scored(chunks[i], queryEmbedding)]),
                  topK)

findSimilar(chunks, queryEmbedding, topK) ==
    IF Len(chunks) = 0 THEN <<>>
    ELSE IF queryEmbedding.isNull \/ Len(queryEmbedding.values) = 0
         THEN SliceFirst(chunks, topK)
         ELSE SliceFirst(
                  SortByScore([i \in 1..Len(chunks) |->
                                  Scored(chunks[i], queryEmbedding)]),
                  topK)

Texts(cs) == [i \in 1..Len(cs) |-> cs[i].text]

ChunkSeparator == <<"\n", "\n", "-", "-", "-", "\n", "\n">>
ParagraphSeparator == <<"\n", "\n">>

getDocumentSummary(chunks, maxChunks) ==
    IF Len(chunks) = 0 THEN <<>>
    ELSE Join(Texts(SliceFirst(chunks, maxChunks)), ParagraphSeparator)

\* -------------------------------------------------------- embedding client
\* One invocation of generateEmbeddingWithRetry.  pc is the await it is
\* suspended at: "fetch" (the request is out), "json" (response.json()),
\* "backoff" (the setTimeout before the next attempt); "done" once it has
\* returned, "threw" if its promise rejected.
\* sent, waits and last record what the invocation did: the requests issued,
\* the backoff delays in milliseconds, and the provider outcome last seen.
IdleCall ==
    [pc |-> "idle", text |-> <<>>, retries |-> 0, attempt |-> 0,
     result |-> Null, sent |-> 0, waits |-> <<>>, last |-> "none"]

\* generateEmbeddingWithRetry(text, retries) up to its first await:
\* attempt = 0 and the first fetch is issued
StartCall(text, retries) ==
    [pc |-> "fetch", text |-> text, retries |-> retries, attempt |-> 0,
     result |-> Null, sent |-> 1, waits |-> <<>>, last |-> "none"]

\* what fetch() settles with: a rejection (transport error) or a response
FetchRejected == [rejected |-> TRUE, status |-> 0]
Response(status) == [rejected |-> FALSE, status |-> status]
HttpStatuses == {200, 429, 500}
FetchOutcomes == {FetchRejected} \cup {Response(s) : s \in HttpStatuses}
ResponseOk(status) == status >= 200 /\ status <= 299

\* setTimeout(r, 2000 * (attempt + 1))
BackoffDelay(attempt) == BackoffUnit * (attempt + 1)

Return(call, value, last) ==
    [call EXCEPT !.pc = "done", !.result = value, !.last = last]

\* OnFetchSettled without the try/catch: a transport error rejects the call
OnFetchSettledUncaught(call, outcome) ==
    IF outcome.rejected THEN [call EXCEPT !.pc = "threw", !.last = "rejected"]
    ELSE IF outcome.status = RateLimited
         THEN IF call.attempt < call.retries
              THEN [call EXCEPT !.pc = "backoff", !.last = "rateLimited",
                                !.waits = Append(@, BackoffDelay(call.attempt))]
              ELSE Return(call, Null, "rateLimited")
         ELSE IF ~ResponseOk(outcome.status)
              THEN Return(call, Null, "notOk")
              ELSE [call EXCEPT !.pc = "json", !.last = "ok"]

\* OnFetchSettled with `attempt <= retries`: one request too many
OnFetchSettledOffByOne(call, outcome) ==
    IF outcome.rejected THEN Return(call, Null, "rejected")
    ELSE IF outcome.status = RateLimited
         THEN IF call.attempt <= call.retries
              THEN [call EXCEPT !.pc = "backoff", !.last = "rateLimited",
                                !.waits = Append(@, BackoffDelay(call.attempt))]
              ELSE Return(call, Null, "rateLimited")
         ELSE IF ~ResponseOk(outcome.status)
              THEN Return(call, Null, "notOk")
              ELSE [call EXCEPT !.pc = "json", !.last = "ok"]

\* OnFetchSettled retrying on every non-OK status, not only on 429
OnFetchSettledRetryAll(call, outcome) ==
    IF outcome.rejected THEN Return(call, Null, "rejected")
    ELSE IF ~ResponseOk(outcome.status)
         THEN LET last == IF outcome.status = RateLimited
                          THEN "rateLimited" ELSE "notOk"
              IN  IF call.attempt < call.retries
                  THEN [call EXCEPT !.pc = "backoff", !.last = last,
                                    !.waits = Append(@, BackoffDelay(call.attempt))]
                  ELSE Return(call, Null, last)
         ELSE [call EXCEPT !.pc = "json", !.last = "ok"]

\* the continuation after `await fetch(...)` (lines 138-147, 151-154)
OnFetchSettled(call, outcome) ==
    IF outcome.rejected THEN Return(call, Null, "rejected")
    ELSE IF outcome.status = RateLimited
         THEN IF call.attempt < call.retries
              THEN [call EXCEPT !.pc = "backoff", !.last = "rateLimited",
                                !.waits = Append(@, BackoffDelay(call.attempt))]
              ELSE Return(call, Null, "rateLimited")
         ELSE IF ~ResponseOk(outcome.status)
              THEN Return(call, Null, "notOk")
              ELSE [call EXCEPT !.pc = "json", !.last = "ok"]

\* the backoff timer fired: continue; attempt++; the next fetch is issued
OnBackoffElapsed(call) ==
    [call EXCEPT !.pc = "fetch", !.attempt = @ + 1, !.sent = @ + 1]

\* what response.json() settles with: a rejection (unparsable body), a body
\* without embedding.values, or a body with the vector
BodyUnparsable == [parsed |-> FALSE, hasValues |-> FALSE, values |-> <<>>]
BodyNoEmbedding == [parsed |-> TRUE, hasValues |-> FALSE, values |-> <<>>]
BodyVector(v) == [parsed |-> TRUE, hasValues |-> TRUE, values |-> v]
Bodies ==
    {BodyUnparsable, BodyNoEmbedding} \cup {BodyVector(v) : v \in ProviderVectors}

\* the continuation after `await response.json()` (lines 149-154)
OnBodySettled(call, body) ==
    IF ~body.parsed THEN Return(call, Null, "unparsable")
    ELSE IF ~body.hasValues THEN Return(call, Null, "noEmbedding")
    ELSE Return(call, Vec(body.values), "vector")


\* --------------------------------------------------------------- documents
\* the documents the callers load: A is two long sentences without a blank
\* line (re-split by sentences into two chunks), B two short paragraphs
\* (one chunk), E blank lines and spaces only (what a scanned PDF without
\* text layer yields)
DocIds == {"A", "B", "E"}
DocText(d) ==
    IF d = "A" THEN <<"A", ".", " ", "A", "!">>
    ELSE IF d = "B" THEN <<"b", "\n", "\n", "b">>
    ELSE <<" ", "\n", "\n", " ">>
DocTitle(d) ==
    IF d = "A" THEN "Title A" ELSE IF d = "B" THEN "Title B" ELSE "Title E"

\* const chunks = chunkText(text), for each document
DocChunks == [d \in DocIds |-> chunkText(DocText(d), DefaultChunkSize)]

\* the query strings and topK values the callers pass
QueryTexts == {<<"q">>}
TopKs == 0..MaxK

LoadIds == 1..MaxLoads
QueryIds == 1..MaxQueries

\* ------------------------------------------------------------------- state
VARIABLES
    chunks,         \* ragStore.chunks
    documentTitle,  \* ragStore.documentTitle
    owner,          \* for each resident chunk, the processDocument call that added it
    loads,          \* the processDocument calls: locals and the await each is at
    queries,        \* the retrieveContext calls: locals and the await each is at
    ecall,          \* a generateEmbeddingWithRetry invocation on its own
    ccall           \* a chunkText invocation on its own

vars == <<chunks, documentTitle, owner, loads, queries, ecall, ccall>>

\* A chunkText invocation: its arguments and, once it has returned, the
\* array it returned.
IdleChunker ==
    [pc |-> "idle", text |-> <<>>, chunkSize |-> DefaultChunkSize,
     chunks |-> <<>>]

\* A processDocument call.  pc: "idle" (not called yet), "embed" (awaiting
\* generateEmbeddingWithRetry), "pause" (awaiting the 50 ms timer), "done"
\* (returned).  progress is the last {current, total} handed to onProgress,
\* ret the value returned, prev the document of the call that had returned
\* in this place before this one was made.  A call that has returned has no
\* further step, and the next call takes its place.
IdleLoad ==
    [pc |-> "idle", doc |-> "none", prev |-> "none", i |-> 0,
     call |-> IdleCall, progress |-> [current |-> 0, total |-> 0],
     ret |-> 0]

\* A retrieveContext call.  pc: "idle", "race" (awaiting Promise.race),
\* "done" (returned).  own is what this call's own embedding request
\* handed to the race.  The next call takes the place of one that has returned and
\* whose embedding request has settled.
IdleQuery ==
    [pc |-> "idle", topK |-> 0, call |-> IdleCall, timedOut |-> FALSE,
     queryEmbedding |-> Null, own |-> Null, result |-> <<>>]

Init ==
    /\ chunks = <<>>
    /\ documentTitle = ""
    /\ owner = <<>>
    /\ loads = [l \in LoadIds |-> IdleLoad]
    /\ queries = [q \in QueryIds |-> IdleQuery]
    /\ ecall = IdleCall
    /\ ccall = IdleChunker


\* the local `chunks` of processDocument call l
LoadChunks(l) == DocChunks[loads[l].doc]

\* ------------------------------------------------------- document session
\* the loop head of processDocument for index i (lines 174-186): onProgress,
\* then generateEmbeddingWithRetry(chunk.text) issues its first request
LoopHead(load, i, items) ==
    [load EXCEPT !.pc = "embed", !.i = i,
                 !.progress = [current |-> i + 1, total |-> Len(items)],
                 !.call = StartCall(items[i + 1].text, DefaultRetries)]

\* ProcessDocument without ragStore.clear()
ProcessDocumentNoClear(l, d) ==
    /\ loads[l].pc \in {"idle", "done"}
    /\ \A m \in LoadIds : m < l => loads[m].pc # "idle"
    /\ UNCHANGED <<chunks, owner>>
    /\ documentTitle' = DocTitle(d)
    /\ LET items == DocChunks[d]
           begun == [IdleLoad EXCEPT !.doc = d, !.prev = loads[l].doc]
       IN  loads' = [loads EXCEPT ![l] =
                IF Len(items) = 0
                THEN [begun EXCEPT !.pc = "done", !.ret = Len(chunks)]
                ELSE LoopHead(begun, 0, items)]
    /\ UNCHANGED <<queries, ecall, ccall>>

\* processDocument(text, title, onProgress) up to its first await
\* ProcessDocument without the assignment of line 166: the store keeps the
\* title it had
ProcessDocumentKeepsTitle(l, d) ==
    /\ loads[l].pc \in {"idle", "done"}
    /\ \A m \in LoadIds : m < l => loads[m].pc # "idle"
    /\ chunks' = <<>>
    /\ owner' = <<>>
    /\ LET items == DocChunks[d]
           begun == [IdleLoad EXCEPT !.doc = d, !.prev = loads[l].doc]
       IN  loads' = [loads EXCEPT ![l] =
                IF Len(items) = 0
                THEN [begun EXCEPT !.pc = "done", !.ret = 0]
                ELSE LoopHead(begun, 0, items)]
    /\ UNCHANGED <<documentTitle, queries, ecall, ccall>>

ProcessDocument(l, d) ==
    /\ loads[l].pc \in {"idle", "done"}
    /\ \A m \in LoadIds : m < l => loads[m].pc # "idle"
    /\ chunks' = <<>>
    /\ owner' = <<>>
    /\ documentTitle' = DocTitle(d)
    /\ LET items == DocChunks[d]
           begun == [IdleLoad EXCEPT !.doc = d, !.prev = loads[l].doc]
       IN  loads' = [loads EXCEPT ![l] =
                IF Len(items) = 0
                THEN [begun EXCEPT !.pc = "done", !.ret = 0]
                ELSE LoopHead(begun, 0, items)]
    /\ UNCHANGED <<queries, ecall, ccall>>

\* Resume of a loop that does not add the chunk before it goes on to the
\* next one
ResumeWithoutAdd(l, call) ==
    IF call.pc = "threw"
    THEN /\ loads' = [loads EXCEPT ![l].pc = "rejected", ![l].call = IdleCall]
         /\ UNCHANGED <<chunks, owner>>
    ELSE IF call.pc # "done"
    THEN /\ loads' = [loads EXCEPT ![l].call = call]
         /\ UNCHANGED <<chunks, owner>>
    ELSE /\ loads' = [loads EXCEPT ![l].pc = "pause", ![l].call = IdleCall]
         /\ UNCHANGED <<chunks, owner>>

\* Resume that stores a chunk only if it was embedded
ResumeSkipFailed(l, call) ==
    IF call.pc = "threw"
    THEN /\ loads' = [loads EXCEPT ![l].pc = "rejected", ![l].call = IdleCall]
         /\ UNCHANGED <<chunks, owner>>
    ELSE IF call.pc # "done"
    THEN /\ loads' = [loads EXCEPT ![l].call = call]
         /\ UNCHANGED <<chunks, owner>>
    ELSE LET chunk == LoadChunks(l)[loads[l].i + 1]
             embedding == call.result
         IN  /\ IF embedding.isNull
                THEN UNCHANGED <<chunks, owner>>
                ELSE /\ chunks' = addChunk(chunks, chunk.text, embedding.values,
                                     [index |-> chunk.index,
                                      title |-> DocTitle(loads[l].doc),
                                      hasEmbedding |-> TRUE])
                     /\ owner' = Append(owner, l)
             /\ loads' = [loads EXCEPT ![l].pc = "pause", ![l].call = IdleCall]

\* processDocument resumed with the embedding (lines 188-200): the chunk is
\* added with or without embedding, then the 50 ms pause starts.  The await
\* is in no try block: a rejection of the call would reject processDocument.
Resume(l, call) ==
    IF call.pc = "threw"
    THEN /\ loads' = [loads EXCEPT ![l].pc = "rejected", ![l].call = IdleCall]
         /\ UNCHANGED <<chunks, owner>>
    ELSE IF call.pc # "done"
    THEN /\ loads' = [loads EXCEPT ![l].call = call]
         /\ UNCHANGED <<chunks, owner>>
    ELSE LET chunk == LoadChunks(l)[loads[l].i + 1]
             embedding == call.result
         IN  /\ chunks' = addChunk(chunks, chunk.text, embedding.values,
                              [index |-> chunk.index,
                               title |-> DocTitle(loads[l].doc),
                               hasEmbedding |-> ~embedding.isNull])
             /\ owner' = Append(owner, l)
             /\ loads' = [loads EXCEPT ![l].pc = "pause", ![l].call = IdleCall]

\* the embedding request of load l settles
LoadFetchSettled(l, outcome) ==
    /\ loads[l].pc = "embed"
    /\ loads[l].call.pc = "fetch"
    /\ Resume(l, OnFetchSettled(loads[l].call, outcome))
    /\ UNCHANGED <<documentTitle, queries, ecall, ccall>>

\* the backoff timer of load l's embedding call fires
LoadBackoffElapsed(l) ==
    /\ loads[l].pc = "embed"
    /\ loads[l].call.pc = "backoff"
    /\ Resume(l, OnBackoffElapsed(loads[l].call))
    /\ UNCHANGED <<documentTitle, queries, ecall, ccall>>

\* the response body of load l's embedding call settles
LoadBodySettled(l, body) ==
    /\ loads[l].pc = "embed"
    /\ loads[l].call.pc = "json"
    /\ Resume(l, OnBodySettled(loads[l].call, body))
    /\ UNCHANGED <<documentTitle, queries, ecall, ccall>>

\* PauseElapsed returning embeddingsCreated instead of ragStore.size
PauseElapsedCountEmbedded(l) ==
    /\ loads[l].pc = "pause"
    /\ LET items == LoadChunks(l)
           next == loads[l].i + 1
           embedded == {j \in 1..Len(chunks) : chunks[j].metadata.hasEmbedding}
       IN  loads' = [loads EXCEPT ![l] =
                IF next < Len(items)
                THEN LoopHead(loads[l], next, items)
                ELSE [loads[l] EXCEPT !.pc = "done", !.i = next,
                                      !.ret = Cardinality(embedded)]]
    /\ UNCHANGED <<chunks, documentTitle, owner, queries, ecall, ccall>>

\* the 50 ms timer fires: next iteration, or return ragStore.size
PauseElapsed(l) ==
    /\ loads[l].pc = "pause"
    /\ LET items == LoadChunks(l)
           next == loads[l].i + 1
       IN  loads' = [loads EXCEPT ![l] =
                IF next < Len(items)
                THEN LoopHead(loads[l], next, items)
                ELSE [loads[l] EXCEPT !.pc = "done", !.i = next,
                                      !.ret = Len(chunks)]]
    /\ UNCHANGED <<chunks, documentTitle, owner, queries, ecall, ccall>>

\* -------------------------------------------------------- retrieval engine
\* the end of retrieveContext with the texts joined by a blank line, the
\* separator of getDocumentSummary
SelectParagraphJoined(query, queryEmbedding, timedOut) ==
    LET similar == findSimilar(chunks, queryEmbedding, query.topK)
    IN  [query EXCEPT !.pc = "done", !.queryEmbedding = queryEmbedding,
                      !.timedOut = timedOut,
                      !.result = Join(Texts(similar), ParagraphSeparator)]

\* retrieveContext from `const similar = ragStore.findSimilar(...)` on
Select(query, queryEmbedding, timedOut) ==
    LET similar == findSimilar(chunks, queryEmbedding, query.topK)
    IN  [query EXCEPT !.pc = "done", !.queryEmbedding = queryEmbedding,
                      !.timedOut = timedOut,
                      !.result = Join(Texts(similar), ChunkSeparator)]

\* RetrieveContext without the size check of lines 211-214
RetrieveContextUnguarded(q, query, topK) ==
    /\ \/ queries[q].pc = "idle"
       \/ queries[q].pc = "done" /\ queries[q].call.pc = "idle"
    /\ \A r \in QueryIds : r < q => queries[r].pc # "idle"
    /\ queries' = [queries EXCEPT ![q] =
            [IdleQuery EXCEPT !.pc = "race", !.topK = topK,
                              !.call = StartCall(query, QueryRetries)]]
    /\ UNCHANGED <<chunks, documentTitle, owner, loads, ecall, ccall>>

\* retrieveContext(query, topK) up to its first await: the 800 ms timer is
\* set, then generateEmbeddingWithRetry(query, 0) issues its request
RetrieveContext(q, query, topK) ==
    /\ \/ queries[q].pc = "idle"
       \/ queries[q].pc = "done" /\ queries[q].call.pc = "idle"
    /\ \A r \in QueryIds : r < q => queries[r].pc # "idle"
    /\ queries' = [queries EXCEPT ![q] =
            IF Len(chunks) = 0
            THEN [IdleQuery EXCEPT !.pc = "done", !.topK = topK]
            ELSE [IdleQuery EXCEPT !.pc = "race", !.topK = topK,
                                   !.call = StartCall(query, QueryRetries)]]
    /\ UNCHANGED <<chunks, documentTitle, owner, loads, ecall, ccall>>

\* Deliver with one embedding slot shared by the calls: the value of a call
\* that returns after its own race is over settles a race still on
DeliverShared(q, call) ==
    IF call.pc \notin {"done", "threw"}
    THEN [queries EXCEPT ![q].call = call]
    ELSE LET value == IF call.pc = "done" THEN call.result ELSE Null
             racing == {r \in QueryIds : r # q /\ queries[r].pc = "race"}
         IN  IF queries[q].pc = "race"
             THEN [queries EXCEPT ![q] =
                      [Select(queries[q], value, FALSE)
                          EXCEPT !.call = IdleCall, !.own = value]]
             ELSE [r \in QueryIds |->
                      IF r = q THEN [queries[q] EXCEPT !.call = IdleCall]
                      ELSE IF r \in racing
                           THEN Select(queries[r], value, FALSE)
                           ELSE queries[r]]

\* The embedding call of query q made a step.  If it returned while the
\* race is on, the race settles with its value (with null from the catch
\* block if it rejected); the value of a call that returns after the timer
\* settled the race has no reader.
Deliver(q, call) ==
    IF call.pc \notin {"done", "threw"}
    THEN [queries EXCEPT ![q].call = call]
    ELSE IF queries[q].pc = "race"
         THEN LET value == IF call.pc = "done" THEN call.result ELSE Null
              IN  [queries EXCEPT ![q] =
                      [Select(queries[q], value, FALSE)
                          EXCEPT !.call = IdleCall, !.own = value]]
         ELSE [queries EXCEPT ![q].call = IdleCall]

QueryFetchSettled(q, outcome) ==
    /\ queries[q].call.pc = "fetch"
    /\ queries' = Deliver(q, OnFetchSettled(queries[q].call, outcome))
    /\ UNCHANGED <<chunks, documentTitle, owner, loads, ecall, ccall>>

QueryBodySettled(q, body) ==
    /\ queries[q].call.pc = "json"
    /\ queries' = Deliver(q, OnBodySettled(queries[q].call, body))
    /\ UNCHANGED <<chunks, documentTitle, owner, loads, ecall, ccall>>

\* QueryTimeout of a retrieveContext that awaits the embedding call alone:
\* the timer settles nothing
QueryTimeoutIgnored(q) ==
    /\ queries[q].pc = "race"
    /\ UNCHANGED vars

\* QueryTimeout with a positional fallback that takes the first chunks out
\* of the store (splice) instead of copying them (slice)
QueryTimeoutSplicing(q) ==
    /\ queries[q].pc = "race"
    /\ queries' = [queries EXCEPT ![q] = Select(queries[q], Null, TRUE)]
    /\ chunks' = SubSeq(chunks, Min(queries[q].topK, Len(chunks)) + 1, Len(chunks))
    /\ owner' = SubSeq(owner, Min(queries[q].topK, Len(owner)) + 1, Len(owner))
    /\ UNCHANGED <<documentTitle, loads, ecall, ccall>>

\* the 800 ms timer fires first: the race rejects, the catch leaves
\* queryEmbedding null; the embedding request stays in flight
QueryTimeout(q) ==
    /\ queries[q].pc = "race"
    /\ queries' = [queries EXCEPT ![q] = Select(queries[q], Null, TRUE)]
    /\ UNCHANGED <<chunks, documentTitle, owner, loads, ecall, ccall>>

\* ------------------------------------------------------------ specification
\* the document session, for the calls L
NextLoad(L) ==
    \/ \E l \in L, d \in DocIds : ProcessDocument(l, d)
    \/ \E l \in L, o \in FetchOutcomes : LoadFetchSettled(l, o)
    \/ \E l \in L : LoadBackoffElapsed(l)
    \/ \E l \in L, b \in Bodies : LoadBodySettled(l, b)
    \/ \E l \in L : PauseElapsed(l)

\* the retrieval engine, for the calls Q
NextRetrieve(Q) ==
    \/ \E q \in Q, t \in QueryTexts, k \in TopKs : RetrieveContext(q, t, k)
    \/ \E q \in Q, o \in FetchOutcomes : QueryFetchSettled(q, o)
    \/ \E q \in Q, b \in Bodies : QueryBodySettled(q, b)
    \/ \E q \in Q : QueryTimeout(q)

\* A session as the application drives it: documents are loaded one after
\* the other, and a retrieval may run at any point of a load.
Next == NextLoad({1}) \/ NextRetrieve({1})

Spec == Init /\ [][Next]_vars

\* processDocument calls that overlap
NextOverlap == NextLoad(LoadIds)

SpecOverlap == Init /\ [][NextOverlap]_vars

\* the timers of the program fire; the provider owes no response
Fairness ==
    /\ \A l \in LoadIds : WF_vars(PauseElapsed(l))
    /\ \A l \in LoadIds : WF_vars(LoadBackoffElapsed(l))
    /\ \A q \in QueryIds : WF_vars(QueryTimeout(q))

FairSpec == Spec /\ Fairness

\* the same behaviours under the fairness of the 800 ms timer alone
FairSpecRetrieve == Spec /\ \A q \in QueryIds : WF_vars(QueryTimeout(q))

\* ------------------------------------------- retrieval on a loaded document
\* the store after processDocument of document d ran alone to its end, the
\* embedding calls having returned es[1], es[2], ...
RECURSIVE LoadedChunks(_, _, _)
LoadedChunks(d, es, n) ==
    IF n = 0 THEN <<>>
    ELSE addChunk(LoadedChunks(d, es, n - 1), DocChunks[d][n].text,
                  es[n].values,
                  [index |-> DocChunks[d][n].index, title |-> DocTitle(d),
                   hasEmbedding |-> ~es[n].isNull])

EmbeddingResults == {Null} \cup {Vec(v) : v \in ProviderVectors}

InitLoaded ==
    \E d \in DocIds :
        \E es \in [1..Len(DocChunks[d]) -> EmbeddingResults] :
            LET n == Len(DocChunks[d]) IN
            /\ chunks = LoadedChunks(d, es, n)
            /\ documentTitle = DocTitle(d)
            /\ owner = [i \in 1..n |-> 1]
            /\ loads = [l \in LoadIds |->
                  IF l = 1
                  THEN [IdleLoad EXCEPT !.pc = "done", !.doc = d, !.i = n,
                           !.progress = [current |-> n, total |-> n],
                           !.ret = n]
                  ELSE IdleLoad]
            /\ queries = [q \in QueryIds |-> IdleQuery]
            /\ ecall = IdleCall
            /\ ccall = IdleChunker
    /\ ccall = IdleChunker

NextQuery == NextRetrieve(QueryIds)

SpecQuery == InitLoaded /\ [][NextQuery]_vars

\* ------------------------------------------------ the embedding client alone
EmbedTexts == {<<"q">>, <<"b">>}

InitEmbed ==
    /\ chunks = <<>>
    /\ documentTitle = ""
    /\ owner = <<>>
    /\ loads = [l \in LoadIds |-> IdleLoad]
    /\ queries = [q \in QueryIds |-> IdleQuery]
    /\ \E t \in EmbedTexts, r \in 0..MaxRetries : ecall = StartCall(t, r)
    /\ ccall = IdleChunker

ClientFetchSettled(outcome) ==
    /\ ecall.pc = "fetch"
    /\ ecall' = OnFetchSettled(ecall, outcome)
    /\ UNCHANGED <<chunks, documentTitle, owner, loads, queries, ccall>>

ClientBackoffElapsed ==
    /\ ecall.pc = "backoff"
    /\ ecall' = OnBackoffElapsed(ecall)
    /\ UNCHANGED <<chunks, documentTitle, owner, loads, queries, ccall>>

ClientBodySettled(body) ==
    /\ ecall.pc = "json"
    /\ ecall' = OnBodySettled(ecall, body)
    /\ UNCHANGED <<chunks, documentTitle, owner, loads, queries, ccall>>

NextEmbed ==
    \/ \E o \in FetchOutcomes : ClientFetchSettled(o)
    \/ ClientBackoffElapsed
    \/ \E b \in Bodies : ClientBodySettled(b)

SpecEmbed == InitEmbed /\ [][NextEmbed]_vars


\* ------------------------------------------------------- the chunker alone
\* the texts chunkText is called with: every text of MaxTextLen characters at
\* most made of letters, spaces, line breaks, full stops and words of
\* BlockLen letters, and a few longer documents
ChunkAlphabet == {"a", " ", "\n", ".", "A"}
ShortTexts == UNION {[1..n -> ChunkAlphabet] : n \in 0..MaxTextLen}

\* n words "a", each preceded by a space
RECURSIVE SpacedWords(_)
SpacedWords(n) == IF n = 0 THEN <<>> ELSE <<" ", "a">> \o SpacedWords(n - 1)

\* longer documents: paragraphs of one or two long words separated by blank
\* lines, so that the paragraph pass flushes and returns three chunks
ThreeParagraphs == <<"A", "\n", "\n", "B", "\n", "\n", "A">>
OversizeParagraph == <<"A", " ", "B", "\n", "\n", "A", "\n", "\n", "A">>
BlankFirstParagraph == <<" ", "\n", "\n", "A", " ", "B", "\n", "\n", "A">>
ManyWords ==
    <<"A">> \o SpacedWords(OverlapWords) \o <<"\n", "\n", "B", "\n", "\n", "A">>
ShortParagraphs == <<"a", "\n", "\n", "a", " ", "a", "\n", "\n", "a">>
TwoLongSentences == <<"A", ".", " ", "B", "\n", "\n", "a">>
SampleTexts ==
    {ThreeParagraphs, OversizeParagraph, BlankFirstParagraph, ManyWords,
     ShortParagraphs, TwoLongSentences}

ChunkInputs == ShortTexts \cup SampleTexts

InitChunk ==
    /\ chunks = <<>>
    /\ documentTitle = ""
    /\ owner = <<>>
    /\ loads = [l \in LoadIds |-> IdleLoad]
    /\ queries = [q \in QueryIds |-> IdleQuery]
    /\ ecall = IdleCall
    /\ \E t \in ChunkInputs :
          ccall = [IdleChunker EXCEPT !.pc = "called", !.text = t]

\* chunkText(text) runs from call to return without an await
ChunkText ==
    /\ ccall.pc = "called"
    /\ ccall' = [ccall EXCEPT !.pc = "returned",
                              !.chunks = chunkText(ccall.text, ccall.chunkSize)]
    /\ UNCHANGED <<chunks, documentTitle, owner, loads, queries, ecall>>

NextChunk == ChunkText

SpecChunk == InitChunk /\ [][NextChunk]_vars

\* -------------------------------------------------- the vector store alone
\* the embeddings chunks are stored with: none, two orthogonal unit vectors,
\* the opposite of one of them, the zero vector
StoreEmbeddings == {<<>>, <<1, 0>>, <<0, 1>>, <<0 - 1, 0>>, <<0, 0>>}

\* the non-empty query embeddings: a unit vector, the zero vector, and a
\* diagonal that is equally close to both unit vectors
StoreQueries == {<<1, 0>>, <<0, 0>>, <<1, 1>>}

\* the text of the chunk added at position n (from 0): n + 1 letters
StoreText(n) == [i \in 1..(n + 1) |-> "x"]

\* the store after addChunk was called with embeddings es[1], ..., es[n],
\* as processDocument calls it
RECURSIVE StoreOf(_, _)
StoreOf(es, n) ==
    IF n = 0 THEN <<>>
    ELSE addChunk(StoreOf(es, n - 1), StoreText(n - 1), es[n],
                  [index |-> n - 1, title |-> "Title",
                   hasEmbedding |-> es[n] # <<>>])

InitStore ==
    \E n \in 0..MaxChunks :
        \E es \in [1..n -> StoreEmbeddings] :
            /\ chunks = StoreOf(es, n)
            /\ documentTitle = "Title"
            /\ owner = [i \in 1..n |-> 1]
            /\ loads = [l \in LoadIds |-> IdleLoad]
            /\ queries = [q \in QueryIds |-> IdleQuery]
            /\ ecall = IdleCall
            /\ ccall = IdleChunker

\* ragStore.findSimilar(queryEmbedding, topK) and the join of the texts, as
\* retrieveContext does once it has a query embedding
StoreFindSimilar(queryEmbedding, topK) ==
    /\ queries' = [queries EXCEPT ![1] =
            Select([IdleQuery EXCEPT !.topK = topK], Vec(queryEmbedding), FALSE)]
    /\ UNCHANGED <<chunks, documentTitle, owner, loads, ecall, ccall>>

NextStore == \E qe \in StoreQueries, k \in TopKs : StoreFindSimilar(qe, k)

SpecStore == InitStore /\ [][NextStore]_vars

\* ------------------------------------------------------------------ claims
Range(f) == {f[i] : i \in DOMAIN f}

\* the values queryEmbedding can take: null, a provider vector, an empty array
QueryEmbeddings == EmbeddingResults \cup {Vec(<<>>)}

getDocumentTitle == documentTitle

isDocumentLoaded == Len(chunks) > 0

\* C1: once processDocument(B) has returned after an earlier processDocument(A)
\* had returned, the store holds exactly B's chunks, getDocumentTitle gives
\* B's title, and whatever the query embedding and topK, findSimilar (hence
\* retrieveContext) and getDocumentSummary return chunks of B only.
C1_NoLeakAcrossDocuments ==
    \A l \in LoadIds : loads[l].pc = "done" =>
        LET d == loads[l].doc IN
        /\ Texts(chunks) = Texts(DocChunks[d])
        /\ \A i \in 1..Len(chunks) :
              chunks[i].metadata.title = DocTitle(d) /\ owner[i] = l
        /\ getDocumentTitle = DocTitle(d)
        /\ \A qe \in QueryEmbeddings, k \in TopKs :
              \A c \in Range(findSimilar(chunks, qe, k)) :
                  /\ c.text \in Range(Texts(DocChunks[d]))
                  /\ c.metadata.title = DocTitle(d)
        /\ \A k \in TopKs :
              getDocumentSummary(chunks, k)
                  = Join(Texts(SliceFirst(DocChunks[d], k)), ParagraphSeparator)

\* B was loaded after A had been loaded, and a retrieval returned B's chunk
C1_Witness ==
    /\ loads[1].pc = "done" /\ loads[1].doc = "B" /\ loads[1].prev = "A"
    /\ Len(chunks) = 1
    /\ queries[1].pc = "done"
    /\ queries[1].result = DocChunks["B"][1].text

\* C2: whenever chunks are resident, they were all added by one and the same
\* processDocument call, also when calls overlap.
C2_SingleDocumentResident ==
    \A i, j \in 1..Len(chunks) : owner[i] = owner[j]

\* C3: the query embedding a retrieveContext call selects with is null or the
\* value its own embedding request returned, and null if its timer fired
\* first; a response that arrives after the timer fired changes nothing in
\* what any call has selected or will select with.
LateResponse(q) ==
    /\ queries[q].pc = "done"
    /\ queries[q].call.pc \in {"fetch", "json"}
    /\ queries'[q].call # queries[q].call

C3_NoStaleEmbedding ==
    /\ [](\A q \in QueryIds : queries[q].pc = "done" =>
            /\ queries[q].queryEmbedding \in {Null, queries[q].own}
            /\ queries[q].timedOut => queries[q].queryEmbedding = Null)
    /\ [][\A q \in QueryIds : LateResponse(q) =>
            \A r \in QueryIds :
                /\ queries'[r].pc = queries[r].pc
                /\ queries'[r].queryEmbedding = queries[r].queryEmbedding
                /\ queries'[r].own = queries[r].own
                /\ queries'[r].result = queries[r].result]_vars

\* the response of one call arrived after its timer had fired, and another
\* call selected with the embedding of its own request
C3_Witness ==
    \E q, r \in QueryIds :
        /\ q # r
        /\ queries[q].pc = "done" /\ queries[q].timedOut
        /\ queries[q].call.pc = "idle"
        /\ queries[r].pc = "done" /\ ~queries[r].timedOut
        /\ ~queries[r].queryEmbedding.isNull
        /\ queries[r].queryEmbedding = queries[r].own

C5_LoadReturns ==
    \A l \in LoadIds : (loads[l].pc = "embed") ~> (loads[l].pc = "done")

C7_RateLimitRetryBudget ==
    /\ [](/\ ecall.sent <= ecall.retries + 1
          /\ (ecall.pc = "done" /\ ecall.last = "rateLimited") =>
                (ecall.result = Null /\ ecall.sent = ecall.retries + 1))
    /\ [][ecall'.sent # ecall.sent =>
            /\ ecall.pc = "backoff" /\ ecall.last = "rateLimited"
            /\ ecall.attempt < ecall.retries
            /\ ecall'.sent = ecall.sent + 1]_vars

\* the default budget of 2 used up: three requests, all answered 429
C7_Witness ==
    /\ ecall.pc = "done" /\ ecall.last = "rateLimited"
    /\ ecall.retries = DefaultRetries /\ ecall.sent = 3
    /\ ecall.result = Null

\* C8: each backoff wait of an embed call is the double of the one before.
C8_ExponentialBackoff ==
    \A n \in 1..(Len(ecall.waits) - 1) :
        ecall.waits[n + 1] = 2 * ecall.waits[n]

\* C9: a transport error, a non-OK status other than 429, an unparsable body
\* or a body without embedding ends the embed call at once with null: no
\* further request, no backoff wait.
Failures == {"rejected", "notOk", "unparsable", "noEmbedding"}

C9_NoRetryOnOtherErrors ==
    [][(ecall' # ecall /\ ecall'.last \in Failures) =>
          /\ ecall'.pc = "done"
          /\ ecall'.result = Null
          /\ ecall'.sent = ecall.sent
          /\ ecall'.waits = ecall.waits]_vars

\* a first request answered with status 500, two retries unused
C9_Witness ==
    /\ ecall.pc = "done" /\ ecall.last = "notOk"
    /\ ecall.retries = DefaultRetries /\ ecall.attempt = 0
    /\ ecall.sent = 1 /\ ecall.waits = <<>> /\ ecall.result = Null

Called(q) ==
    /\ queries[q].pc \in {"idle", "done"}
    /\ queries[q].call.pc = "idle"
    /\ queries'[q] # queries[q]

C14_EmptyStoreEmptyResult ==
    [][\A q \in QueryIds : (Called(q) /\ Len(chunks) = 0) =>
          /\ queries'[q].pc = "done"
          /\ queries'[q].result = <<>>
          /\ queries'[q].call.pc = "idle"]_vars

\* a retrieval for two chunks made after the load of the blank document E,
\* which followed the load of A, returned the empty string
C14_Witness ==
    /\ loads[1].pc = "done" /\ loads[1].doc = "E" /\ loads[1].prev = "A"
    /\ loads[1].ret = 0 /\ Len(chunks) = 0
    /\ queries[1].pc = "done" /\ queries[1].topK = 2
    /\ queries[1].result = <<>> /\ queries[1].call.pc = "idle"

\* C15: while a processDocument call runs, the store holds at least as many
\* chunks as the `current` of the progress it last reported: progress for a
\* chunk is reported after the chunk was added.
C15_ProgressAfterStore ==
    \A l \in LoadIds :
        loads[l].pc \in {"embed", "pause"} =>
            loads[l].progress.current <= Len(chunks)

\* C16: when a processDocument call not overlapped by another returns, the
\* store holds exactly the chunks of chunkText(text), in chunker order, each
\* with a provider vector or the empty embedding (the empty one whenever the
\* embedding call ended without a response body), and the value returned is
\* the number of chunks chunkText produced.
C16_StoreIsChunkerOutput ==
    /\ [](\A l \in LoadIds : loads[l].pc = "done" =>
            LET items == DocChunks[loads[l].doc] IN
            /\ loads[l].ret = Len(items)
            /\ Len(chunks) = Len(items)
            /\ \A i \in 1..Len(items) :
                  /\ chunks[i].text = items[i].text
                  /\ chunks[i].metadata.index = items[i].index
                  /\ chunks[i].embedding \in {<<>>} \cup ProviderVectors
                  /\ chunks[i].metadata.hasEmbedding
                        = (chunks[i].embedding # <<>>))
    /\ [][\A l \in LoadIds :
            (Len(chunks') = Len(chunks) + 1 /\ loads[l].call.pc = "fetch") =>
                chunks'[Len(chunks')].embedding = <<>>]_vars

\* A was loaded in full: its first chunk without embedding, its second with
C16_Witness ==
    /\ loads[1].pc = "done" /\ loads[1].doc = "A" /\ loads[1].ret = 2
    /\ Len(chunks) = 2
    /\ chunks[1].embedding = <<>> /\ ~chunks[1].metadata.hasEmbedding
    /\ chunks[2].embedding = <<0, 1>> /\ chunks[2].metadata.hasEmbedding

\* C17: within one processDocument call, whenever an embedding request is
\* out it is the request for the chunk at the loop index i, all chunks
\* before it have been added to the store and none after; a first request
\* for a chunk is issued only in such a state, and the call issues nothing
\* while it pauses or after it returned.
C17_SequentialEmbedding ==
    /\ [](\A l \in LoadIds :
            IF loads[l].call.pc # "idle"
            THEN /\ loads[l].pc = "embed"
                 /\ loads[l].i < Len(LoadChunks(l))
                 /\ loads[l].call.text = LoadChunks(l)[loads[l].i + 1].text
                 /\ Len(chunks) = loads[l].i
                 /\ \A j \in 1..Len(chunks) :
                       chunks[j].text = LoadChunks(l)[j].text
            ELSE loads[l].pc \in {"idle", "pause", "done"})
    /\ [][\A l \in LoadIds :
            (loads[l].call.pc = "idle" /\ loads'[l].call.pc # "idle") =>
                /\ loads'[l].call.pc = "fetch" /\ loads'[l].call.sent = 1
                /\ Len(chunks') = loads'[l].i
                /\ loads[l].pc = "pause" => loads'[l].i = loads[l].i + 1]_vars

\* the request for the second chunk of A is out, the first chunk is stored
C17_Witness ==
    /\ loads[1].pc = "embed" /\ loads[1].doc = "A" /\ loads[1].i = 1
    /\ loads[1].call.pc = "fetch"
    /\ loads[1].call.text = DocChunks["A"][2].text
    /\ Len(chunks) = 1 /\ chunks[1].text = DocChunks["A"][1].text

\* C18: the i-th resident chunk (counting from 0, in insertion order) has
\* store id i and metadata.index i: both are pairwise distinct and make up
\* 0..size-1, also when processDocument calls overlap.
C18_ContiguousIndices ==
    \A i \in 1..Len(chunks) :
        /\ chunks[i].id = i - 1
        /\ chunks[i].metadata.index = i - 1

\* C19: when a document is loaded again right after its own load returned,
\* the count returned and the sequence of texts and indices in the store are
\* the same after both loads: at the moment of the second call (what the
\* first load left) and at the return of the second they are the same
\* function of the document alone, whatever the embedding outcomes.
Outcome(l) ==
    [ret |-> loads[l].ret,
     chunks |-> [i \in 1..Len(chunks) |->
                    [text |-> chunks[i].text,
                     index |-> chunks[i].metadata.index]]]

SameForAllRuns(d) ==
    [ret |-> Len(DocChunks[d]),
     chunks |-> [i \in 1..Len(DocChunks[d]) |->
                    [text |-> DocChunks[d][i].text,
                     index |-> DocChunks[d][i].index]]]

C19_ReloadIdempotent ==
    /\ [][\A l \in LoadIds :
            (loads[l].pc = "done" /\ loads'[l] # loads[l]
                /\ loads'[l].doc = loads[l].doc) =>
                Outcome(l) = SameForAllRuns(loads[l].doc)]_vars
    /\ [](\A l \in LoadIds :
            (loads[l].pc = "done" /\ loads[l].prev = loads[l].doc) =>
                Outcome(l) = SameForAllRuns(loads[l].doc))

\* A was loaded twice in succession; the second run embedded its first chunk
\* only
C19_Witness ==
    /\ loads[1].pc = "done" /\ loads[1].doc = "A" /\ loads[1].prev = "A"
    /\ loads[1].ret = 2 /\ Len(chunks) = 2
    /\ chunks[1].metadata.hasEmbedding /\ ~chunks[2].metadata.hasEmbedding

\* C20: chunkText returns at least one chunk for every text of length >= 1,
\* texts of spaces and line breaks only included.
C20_AtLeastOneChunk ==
    (ccall.pc = "returned" /\ Len(ccall.text) >= 1) =>
        Len(ccall.chunks) >= 1

\* C11: on a non-empty store and for a non-empty query embedding,
\* findSimilar returns min(k, count) chunks of the store, each with its
\* cosine score (0 for a chunk without embedding); a returned chunk comes
\* before another returned chunk, and before every chunk not returned, only
\* if its score is higher, or equal and it was inserted earlier.
ScoreEqual(s, t) == ~ScoreGreater(s, t) /\ ~ScoreGreater(t, s)

\* the score the chunk at position p is owed for query embedding qe
ScoreAt(p, qe) ==
    IF chunks[p].embedding = <<>> THEN ZeroScore
    ELSE cosineSimilarity(Vec(qe), Vec(chunks[p].embedding))

RanksBefore(p, q, qe) ==
    \/ ScoreGreater(ScoreAt(p, qe), ScoreAt(q, qe))
    \/ ScoreEqual(ScoreAt(p, qe), ScoreAt(q, qe)) /\ p < q

C11_RankedByScore ==
    \A qe \in StoreQueries, k \in TopKs :
        Len(chunks) > 0 =>
            LET similar == findSimilar(chunks, Vec(qe), k)
                pos == [i \in 1..Len(similar) |-> similar[i].id + 1]
            IN  /\ Len(similar) = Min(k, Len(chunks))
                /\ \A i \in 1..Len(similar) :
                      /\ pos[i] \in 1..Len(chunks)
                      /\ similar[i].text = chunks[pos[i]].text
                      /\ similar[i].embedding = chunks[pos[i]].embedding
                      /\ ScoreEqual(similar[i].score, ScoreAt(pos[i], qe))
                /\ \A i, j \in 1..Len(similar) :
                      i < j => RanksBefore(pos[i], pos[j], qe)
                /\ \A i \in 1..Len(similar), p \in 1..Len(chunks) :
                      p \notin Range(pos) => RanksBefore(pos[i], p, qe)

\* of three chunks the third is the closest to the query and the first two
\* tie at score 0: the two returned are the third, then the first
C11_Witness ==
    /\ Len(chunks) = 3
    /\ chunks[1].embedding = <<0, 1>> /\ chunks[2].embedding = <<>>
    /\ chunks[3].embedding = <<1, 0>>
    /\ queries[1].pc = "done" /\ queries[1].topK = 2
    /\ queries[1].queryEmbedding = Vec(<<1, 0>>)
    /\ queries[1].result = chunks[3].text \o ChunkSeparator \o chunks[1].text

\* C12: in the ranking of the whole store for a non-empty query embedding,
\* every chunk without embedding has score 0 and comes after every chunk
\* that has an embedding.
C12_UnembeddedRankLast ==
    \A qe \in StoreQueries :
        LET ranked == findSimilar(chunks, Vec(qe), Len(chunks))
        IN  /\ \A i \in 1..Len(ranked) :
                  ranked[i].embedding = <<>> => ranked[i].score.num = 0
            /\ \A i, j \in 1..Len(ranked) :
                  (ranked[i].embedding = <<>> /\ ranked[j].embedding # <<>>)
                      => j < i

\* C13: for a query embedding and a stored embedding of equal length,
\* cosineSimilarity, in either argument order, divides by a non-zero
\* denominator or returns the constant 0, and its value is 0 whenever one of
\* the two is all zeros or their dot product is 0.
AllZero(v) == \A i \in 1..Len(v) : v[i] = 0

IsZeroScore(s) == s.num = 0 /\ s.normA > 0 /\ s.normB > 0

C13_ZeroAndOrthogonal ==
    \A qe \in StoreQueries, p \in 1..Len(chunks) :
        LET e == chunks[p].embedding
            ab == cosineSimilarity(Vec(qe), Vec(e))
            ba == cosineSimilarity(Vec(e), Vec(qe))
        IN  Len(e) = Len(qe) =>
                /\ ab.normA > 0 /\ ab.normB > 0
                /\ ba.normA > 0 /\ ba.normB > 0
                /\ (AllZero(qe) \/ AllZero(e) \/ Dot(qe, e) = 0) =>
                      (IsZeroScore(ab) /\ IsZeroScore(ba))

\* the store holds a zero vector and two orthogonal unit vectors and was
\* ranked for the zero query: all scores are 0 and the two chunks returned
\* are the first two inserted
C13_Witness ==
    /\ Len(chunks) = 3
    /\ chunks[1].embedding = <<0, 0>> /\ chunks[2].embedding = <<0, 1>>
    /\ chunks[3].embedding = <<1, 0>>
    /\ queries[1].pc = "done" /\ queries[1].topK = 2
    /\ queries[1].queryEmbedding = Vec(<<0, 0>>)
    /\ queries[1].result = chunks[1].text \o ChunkSeparator \o chunks[2].text


\* ------------------------------------------------------ chunker properties
\* s without its whitespace
Squash(s) == SelectSeq(s, LAMBDA c : c \notin Whitespace)

IsPrefix(p, s) == Len(p) <= Len(s) /\ SubSeq(s, 1, Len(p)) = p
IsSuffix(p, s) == Len(p) <= Len(s) /\ SubSeq(s, Len(s) - Len(p) + 1, Len(s)) = p
Occurs(p, s) == \E i \in 0..(Len(s) - Len(p)) : SubSeq(s, i + 1, i + Len(p)) = p

\* the call returned the result of the sentence pass
UsesFallback(text, chunkSize) ==
    /\ Len(ParagraphChunks(text, chunkSize)) < MinChunks
    /\ StrLen(text) > SentenceMinLen

\* the buffers the paragraph loop flushed, in order, as they were (untrimmed)
RECURSIVE FlushedBuffers(_, _, _)
FlushedBuffers(st, paras, chunkSize) ==
    IF paras = <<>> THEN <<>>
    ELSE LET nxt == ParagraphStep(st, Head(paras), chunkSize)
         IN  (IF Len(nxt.chunks) > Len(st.chunks)
              THEN <<st.currentChunk>> ELSE <<>>)
             \o FlushedBuffers(nxt, Tail(paras), chunkSize)

\* the paragraphs that triggered a flush, in order
RECURSIVE FlushingParagraphs(_, _, _)
FlushingParagraphs(st, paras, chunkSize) ==
    IF paras = <<>> THEN <<>>
    ELSE LET nxt == ParagraphStep(st, Head(paras), chunkSize)
         IN  (IF Len(nxt.chunks) > Len(st.chunks)
              THEN <<Head(paras)>> ELSE <<>>)
             \o FlushingParagraphs(nxt, Tail(paras), chunkSize)

Flushed(text, chunkSize) ==
    FlushedBuffers(ChunkerState(<<>>, <<>>), SplitParagraphs(text), chunkSize)
Flushing(text, chunkSize) ==
    FlushingParagraphs(ChunkerState(<<>>, <<>>), SplitParagraphs(text), chunkSize)

\* the last OverlapWords space-separated words of a buffer
LastWords(buffer) ==
    Join(SliceLast(SplitSpaces(buffer), OverlapWords), <<" ">>)

RECURSIVE Concat(_)
Concat(parts) == IF parts = <<>> THEN <<>> ELSE Head(parts) \o Concat(Tail(parts))

\* chunk i of the returned chunks without the overlap seed it starts with
WithoutSeed(i) ==
    LET body == Squash(ccall.chunks[i].text)
    IN  IF i = 1 \/ UsesFallback(ccall.text, ccall.chunkSize) THEN body
        ELSE LET seed == Squash(LastWords(Flushed(ccall.text, ccall.chunkSize)[i - 1]))
             IN  SubSeq(body, Len(seed) + 1, Len(body))

\* C21: the returned chunk texts, taken in index order with the overlap seed
\* at the start of each chunk removed, reproduce the input: every paragraph
\* (every sentence in the fallback) exactly once and in source order, up to
\* whitespace
C21_ContentPreserved ==
    ccall.pc = "returned" =>
        /\ \A i \in 2..Len(ccall.chunks) :
              UsesFallback(ccall.text, ccall.chunkSize)
              \/ IsPrefix(Squash(LastWords(Flushed(ccall.text, ccall.chunkSize)[i - 1])),
                          Squash(ccall.chunks[i].text))
        /\ Concat([i \in 1..Len(ccall.chunks) |-> WithoutSeed(i)])
               = Squash(ccall.text)
        /\ Concat([i \in 1..Len(SplitParagraphs(ccall.text)) |->
                      Squash(SplitParagraphs(ccall.text)[i])])
               = Squash(ccall.text)

\* three chunks come back from the paragraph pass, the second and the third
\* seeded with the last twenty words of the buffer before
C21_Witness ==
    /\ ccall.pc = "returned"
    /\ ccall.text = ManyWords
    /\ Len(ccall.chunks) = 3
    /\ ~UsesFallback(ccall.text, ccall.chunkSize)
    /\ Len(WithoutSeed(2)) = 1
    /\ Len(WithoutSeed(3)) = 1


\* C22: every chunk chunkText returns has a non-empty text without leading
\* or trailing whitespace, also when the input starts with a blank paragraph
\* followed by a paragraph that triggers a flush
C22_ChunksNonEmptyTrimmed ==
    ccall.pc = "returned" =>
        \A i \in 1..Len(ccall.chunks) :
            LET text == ccall.chunks[i].text
            IN  /\ text # <<>>
                /\ Head(text) \notin Whitespace
                /\ text[Len(text)] \notin Whitespace


\* C23: chunkText returns the sentence split (same size threshold, no seed)
\* exactly when the paragraph pass gave fewer than 3 chunks and the input is
\* longer than 1000 characters, and the paragraph result otherwise; an input
\* without blank lines that is longer than 1000 characters is split by
\* sentences
C23_FallbackExactlyWhenDegenerate ==
    ccall.pc = "returned" =>
        LET paragraphResult == ParagraphChunks(ccall.text, ccall.chunkSize)
            sentenceResult == splitBySentences(ccall.text, ccall.chunkSize)
        IN  /\ (Len(paragraphResult) < 3 /\ StrLen(ccall.text) > 1000)
                   => ccall.chunks = sentenceResult
            /\ ~(Len(paragraphResult) < 3 /\ StrLen(ccall.text) > 1000)
                   => ccall.chunks = paragraphResult
            /\ (Len(SplitParagraphs(ccall.text)) = 1 /\ StrLen(ccall.text) > 1000)
                   => /\ ccall.chunks = sentenceResult
                      /\ Concat([i \in 1..Len(ccall.chunks) |->
                                    Squash(ccall.chunks[i].text)])
                             = Squash(ccall.text)

\* a text of 1603 characters without a blank line: one chunk from the
\* paragraph pass, two from the sentence pass, which are the ones returned
C23_Witness ==
    /\ ccall.pc = "returned"
    /\ ccall.text = <<"A", ".", " ", "A">>
    /\ Len(ParagraphChunks(ccall.text, ccall.chunkSize)) = 1
    /\ Texts(ccall.chunks) = << <<"A", ".">>, <<"A">> >>


\* every paragraph of the input appears whole inside one returned chunk
ParagraphsWhole ==
    \A p \in Range(SplitParagraphs(ccall.text)) :
        Trim(p) # <<>> =>
            \E i \in 1..Len(ccall.chunks) : Occurs(Trim(p), ccall.chunks[i].text)

\* every sentence of the input appears whole inside one returned chunk
SentencesWhole ==
    \A t \in Range(SplitSentences(ccall.text)) :
        Trim(t) # <<>> =>
            \E i \in 1..Len(ccall.chunks) : Occurs(Trim(t), ccall.chunks[i].text)

MinContentLength == 100
TooShort(text) == StrLen(Trim(text)) < MinContentLength

\* C25: an empty or too short document text is refused before any chunking
\* or store mutation on every entry path, the direct processDocument call
\* included: no load of such a text gets past its call, returns a chunk count
\* or changes the title or the chunks of the store
C25_ShortInputRejected ==
    \A l \in LoadIds :
        (loads[l].doc \in DocIds /\ TooShort(DocText(loads[l].doc))) =>
            /\ loads[l].pc \notin {"embed", "pause", "done"}
            /\ documentTitle # DocTitle(loads[l].doc)


\* C26: the paragraph pass flushes only a non-empty buffer whose length plus
\* the next paragraph's length exceeds the target size; hence a non-empty
\* input of at most 1000 characters none of whose paragraphs meets that
\* condition yields exactly one chunk with all paragraphs in source order
C26_SingleChunkWithoutFlush ==
    (/\ ccall.pc = "returned"
     /\ ccall.text # <<>>
     /\ StrLen(ccall.text) <= 1000
     /\ Flushed(ccall.text, ccall.chunkSize) = <<>>) =>
        /\ Len(ccall.chunks) = 1
        /\ ccall.chunks[1].text
               = Trim(Join(SplitParagraphs(ccall.text), ParagraphSeparator))


\* what the buffer holds right after flush number i: the seed, a space and
\* the paragraph that triggered the flush
SeededBuffer(i) ==
    LastWords(Flushed(ccall.text, ccall.chunkSize)[i])
        \o <<" ">> \o Flushing(ccall.text, ccall.chunkSize)[i]

\* C27: in the paragraph pass every chunk after the first starts with the
\* last 20 space-separated words of the buffer just flushed (the whole buffer
\* when it has fewer) followed by the paragraph that triggered the flush, so
\* the leading text of chunk i+1 is a suffix of chunk i; the sentence
\* fallback seeds nothing
C27_OverlapSeed ==
    ccall.pc = "returned" =>
        IF UsesFallback(ccall.text, ccall.chunkSize)
        THEN Concat([i \in 1..Len(ccall.chunks) |-> Squash(ccall.chunks[i].text)])
                 = Squash(ccall.text)
        ELSE \A i \in 1..(Len(ccall.chunks) - 1) :
                LET buffer == Flushed(ccall.text, ccall.chunkSize)[i]
                    words == SplitSpaces(buffer)
                IN  /\ ccall.chunks[i].text = Trim(buffer)
                    /\ Len(words) < 20 => LastWords(buffer) = buffer
                    /\ Len(words) >= 20 => Len(SplitSpaces(LastWords(buffer))) = 20
                    /\ IsSuffix(LastWords(buffer), buffer)
                    /\ IsPrefix(Trim(SeededBuffer(i)), ccall.chunks[i + 1].text)
                    /\ IsSuffix(Trim(LastWords(buffer)), ccall.chunks[i].text)

\* a first chunk of 21 words: the second chunk starts with its last 20 words
\* and the paragraph that triggered the flush, and the last 20 words are not
\* the whole first chunk
C27_Witness ==
    /\ ccall.pc = "returned"
    /\ ccall.text = ManyWords
    /\ ~UsesFallback(ccall.text, ccall.chunkSize)
    /\ Len(ccall.chunks) = 3
    /\ Len(SplitSpaces(ccall.chunks[1].text)) = 21
    /\ ccall.chunks[2].text = Tail(SpacedWords(20)) \o <<" ", "B">>
    /\ Trim(LastWords(ccall.chunks[1].text)) # ccall.chunks[1].text


\* ---------------------------------------------------- retrieval properties
\* this step is the return of call q of retrieveContext
Returns(q) ==
    /\ queries'[q].pc = "done"
    /\ \/ queries[q].pc = "race"
       \/ queries[q].call.pc = "idle" /\ queries'[q] # queries[q]

\* the ways of picking n distinct chunks of the store, in some order
Picks(n) ==
    {p \in [1..n -> 1..Len(chunks)] : \A i, j \in 1..n : p[i] = p[j] => i = j}

\* C28: whatever the store, the query, the outcome of the embedding request
\* and k, retrieveContext returns the texts of exactly min(k, size) distinct
\* resident chunks joined by the chunk separator, which is not the separator
\* of paragraphs inside chunks and of getDocumentSummary
C28_ExactlyMinKChunks ==
    [][/\ \A q \in QueryIds :
              Returns(q) =>
                  \E p \in Picks(Min(queries'[q].topK, Len(chunks))) :
                      queries'[q].result
                          = Join([i \in 1..Len(p) |-> chunks[p[i]].text],
                                 <<"\n", "\n", "-", "-", "-", "\n", "\n">>)
        /\ getDocumentSummary(chunks, Len(chunks))
               = Join(Texts(chunks), <<"\n", "\n">>)
        /\ ChunkSeparator # ParagraphSeparator]_vars

\* a call with k = 2 on a store of two chunks returned both, the second
\* ranked first, joined otherwise than getDocumentSummary joins them
C28_Witness ==
    /\ Len(chunks) = 2
    /\ queries[1].pc = "done"
    /\ queries[1].topK = 2
    /\ ~queries[1].queryEmbedding.isNull
    /\ queries[1].result = chunks[2].text \o ChunkSeparator \o chunks[1].text
    /\ queries[1].result # getDocumentSummary(chunks, 2)


\* C29: findSimilar, retrieveContext, getDocumentSummary, isDocumentLoaded
\* and getDocumentTitle leave the store as it is: no step of a retrieveContext
\* call changes the chunk sequence, any chunk or the title, also when the
\* chunks are ranked by score; the store changes only by clear with the title
\* assignment and by addChunk, in processDocument
C29_ReadsLeaveStoreUnchanged ==
    [][/\ queries' # queries => (chunks' = chunks /\ documentTitle' = documentTitle)
       /\ chunks' # chunks =>
              /\ loads' # loads
              /\ \/ chunks' = <<>>
                 \/ /\ Len(chunks') = Len(chunks) + 1
                    /\ SubSeq(chunks', 1, Len(chunks)) = chunks
       /\ documentTitle' # documentTitle => (loads' # loads /\ chunks' = <<>>)]_vars

\* a ranked retrieval returned the second chunk before the first, and the
\* store still holds the chunks in insertion order under the same title
C29_Witness ==
    /\ isDocumentLoaded
    /\ Len(chunks) = 2
    /\ getDocumentTitle = DocTitle("A")
    /\ queries[1].pc = "done"
    /\ queries[1].result = chunks[2].text \o ChunkSeparator \o chunks[1].text
    /\ Texts(chunks) = Texts(DocChunks["A"])
    /\ \A i \in 1..Len(chunks) : chunks[i].id = i - 1
    /\ getDocumentSummary(chunks, 2) = chunks[1].text \o ParagraphSeparator \o chunks[2].text


\* ----------------------------------------------------- load in progress
\* the store holds the first chunks of document d, in document order
PrefixOf(d) ==
    /\ Len(chunks) <= Len(DocChunks[d])
    /\ Texts(chunks) = SubSeq(Texts(DocChunks[d]), 1, Len(chunks))

\* C30: at every state of a processDocument call that no other load
\* overlaps, from its clear on, the chunk texts of the store are a prefix, in
\* order, of chunkText(text), the title is the new document's, and the size
\* of the store decreases at no step but a clear; so a retrieveContext or
\* getDocumentSummary during the load returns texts of a prefix of the new
\* document only
C30_PrefixDuringLoad ==
    [][\A l \in {1} :
          /\ loads[l].pc \in {"embed", "pause", "done"} =>
                /\ PrefixOf(loads[l].doc)
                /\ documentTitle = DocTitle(loads[l].doc)
                /\ \A i \in 1..Len(chunks) :
                       chunks[i].metadata.title = DocTitle(loads[l].doc)
                /\ getDocumentSummary(chunks, MaxK)
                       = Join(SliceFirst(Texts(DocChunks[loads[l].doc]),
                                         Min(MaxK, Len(chunks))),
                              ParagraphSeparator)
                /\ \A q \in QueryIds :
                       Returns(q) =>
                           \E p \in Picks(Min(queries'[q].topK, Len(chunks))) :
                               queries'[q].result
                                   = Join([i \in 1..Len(p) |->
                                              DocChunks[loads[l].doc][p[i]].text],
                                          ChunkSeparator)
          /\ Len(chunks') < Len(chunks) =>
                /\ chunks' = <<>>
                /\ loads[l].pc \in {"idle", "done"}
                /\ loads'[l].doc \in DocIds
                /\ documentTitle' = DocTitle(loads'[l].doc)]_vars

\* document A is being loaded over document B: its first chunk is stored, the
\* second is awaiting its embedding, and a retrieval with k = 2 returned the
\* first chunk alone
C30_Witness ==
    /\ loads[1].pc = "embed"
    /\ loads[1].doc = "A"
    /\ loads[1].prev = "B"
    /\ Len(chunks) = 1
    /\ documentTitle = DocTitle("A")
    /\ queries[1].pc = "done"
    /\ queries[1].topK = 2
    /\ queries[1].result = DocChunks["A"][1].text

=============================================================================
